---------------------------- MODULE Spec2Model ----------------------------
(***************************************************************************)
(* Model of plot4paper.py: the class qualfig, which resolves a figure's    *)
(* width and height from a journal preset, writes them and a fixed style   *)
(* block into matplotlib's process-global rcParams, adjusts the subplot    *)
(* margins (set_label_spaces) and saves a cropped figure through external  *)
(* tools (save, _crop_figure).                                             *)
(*                                                                         *)
(* Number representation (TLC has integers only):                          *)
(*   lengths in TeX points      : hundredths of a point  (240pt = 24000)   *)
(*   fractions (hf, wf, margins, line widths, alpha) : thousandths         *)
(*   lengths in inches          : thousandths of an inch                   *)
(*   font sizes, cap size, dpi, ncols : plain integers                     *)
(* A float product a*f is Mul(a, f), a float quotient is rounded to the    *)
(* thousandth.                                                             *)
(*                                                                         *)
(* Python values that may be None, a string or a number are tagged         *)
(* records [t, v], so that "x is None" and "x == 'gr'" are the type-aware  *)
(* tests Python makes.                                                     *)
(***************************************************************************)
EXTENDS Integers, Sequences, FiniteSets, TLC

\* rcParams : matplotlib's global registry (key -> value)
\* self     : the qualfig object the caller holds, or NoObject
\* files    : the names of the files that exist
\* last     : the last call made: its name, arguments, exception, printed
\*            lines, external commands, and the registry it started from
VARIABLES rcParams, self, files, last

vars == <<rcParams, self, files, last>>

-----------------------------------------------------------------------------
(* Python values *)

None == [t |-> "None", v |-> 0]

Num(n) == [t |-> "num", v |-> n]

Str(s) == [t |-> "str", v |-> s]

IsNone(x) == x.t = "None"

\* Python's x == <number literal>
EqNum(x, n) == x.t = "num" /\ x.v = n

\* Python's x == <string literal>
EqStr(x, s) == x.t = "str" /\ x.v = s

\* float product of a value and a fraction held in thousandths
Mul(a, f) == (a * f) \div 1000

\* float quotient a / b (b > 0), in thousandths, rounded to the nearest
\* thousandth as the format {:4.3f} prints it
Quot3(a, b) == (2 * 1000 * a + b) \div (2 * b)

-----------------------------------------------------------------------------
(* Module level: the implemented templates and the configuration *)

astronomy_journal == <<"mnras", "apj", "aa", "iau">>

university_thesis == <<"lmu">>

SeqRange(s) == {s[i] : i \in DOMAIN s}

\* str.upper() on the permitted keys
Upper(k) ==
  CASE k = "mnras" -> "MNRAS"
    [] k = "apj"   -> "APJ"
    [] k = "aa"    -> "AA"
    [] k = "iau"   -> "IAU"
    [] k = "lmu"   -> "LMU"

\* config.ini: one section per template, keyed by the upper-case name.
\* The MNRAS column width and text height are the ones the specification
\* quotes (240pt, 682pt); the file itself is not part of the sources.
config ==
  [MNRAS |-> [savesuf |-> <<"_", "m", "n">>, texcolumnwidth |-> 24000,
              texlinewidth |-> 50400, texheight |-> 68200],
   APJ   |-> [savesuf |-> <<"_", "a", "p">>, texcolumnwidth |-> 24200,
              texlinewidth |-> 51300, texheight |-> 65700],
   AA    |-> [savesuf |-> <<"_", "a", "a">>, texcolumnwidth |-> 25600,
              texlinewidth |-> 52300, texheight |-> 70500],
   IAU   |-> [savesuf |-> <<"_", "i", "a">>, texcolumnwidth |-> 19000,
              texlinewidth |-> 38000, texheight |-> 56000],
   LMU   |-> [savesuf |-> <<"_", "l", "m">>, texcolumnwidth |-> 41800,
              texlinewidth |-> 41800, texheight |-> 59500]]


-----------------------------------------------------------------------------
(* matplotlib's global style registry, as the module finds it on import.   *)
(* Only the keys plot4paper.py writes are kept; sizes that matplotlib      *)
(* names ("medium") are held by their value in points.                     *)

rcDefault ==
  ("figure.subplot.top" :> 880) @@ ("figure.subplot.bottom" :> 110) @@
  ("figure.subplot.left" :> 125) @@ ("figure.subplot.right" :> 900) @@
  ("figure.figsize" :> <<6400, 4800>>) @@
  ("font.size" :> 10) @@ ("axes.labelsize" :> 10) @@ ("axes.titlesize" :> 12) @@
  ("xtick.major.width" :> 800) @@ ("xtick.minor.width" :> 600) @@
  ("ytick.major.width" :> 800) @@ ("ytick.minor.width" :> 600) @@
  ("lines.linewidth" :> 1500) @@ ("grid.linewidth" :> 800) @@
  ("xtick.minor.visible" :> FALSE) @@ ("ytick.minor.visible" :> FALSE) @@
  ("xtick.bottom" :> TRUE) @@ ("xtick.top" :> FALSE) @@
  ("ytick.left" :> TRUE) @@ ("ytick.right" :> FALSE) @@
  ("xtick.direction" :> "out") @@ ("ytick.direction" :> "out") @@
  ("errorbar.capsize" :> 0) @@
  ("legend.fontsize" :> 10) @@ ("legend.framealpha" :> 800) @@
  ("legend.edgecolor" :> "0.8") @@
  ("xtick.labelsize" :> 10) @@ ("ytick.labelsize" :> 10) @@
  ("font.family" :> "sans-serif") @@ ("text.usetex" :> FALSE) @@
  ("text.latex.preamble" :> "") @@
  ("contour.negative_linestyle" :> "dashed") @@
  ("axes.prop_cycle" :> "tab10")

MarginKeys ==
  {"figure.subplot.top", "figure.subplot.bottom",
   "figure.subplot.left", "figure.subplot.right"}

\* rc with the entries of upd written over it (a run of rcParams[k] = v)
Write(rc, upd) == upd @@ rc

-----------------------------------------------------------------------------
(* qualfig.__init__ *)

GoldenRatio == 618

InchesToPoints == 7227

font_size == 8

linewidth == 500

DefaultDpi == 1000

NoObject == [cls |-> "None"]

NoError == [kind |-> "none", msg |-> "", val |-> 0]

\* the outcome of a call that raises: the exception, what was printed before
\* it, and the global registry as the call leaves it
Raise_WritesFirst(rc, kind, msg, val, out) ==
  [err |-> [kind |-> kind, msg |-> msg, val |-> val], out |-> out,
   rc |-> Write(rc, "figure.subplot.top" :> 950), obj |-> NoObject]

Raise(rc, kind, msg, val, out) ==
  [err |-> [kind |-> kind, msg |-> msg, val |-> val], out |-> out,
   rc |-> rc, obj |-> NoObject]

permitted_keys == astronomy_journal \o university_thesis

\* lines 86-103: the plot width, or the exception raised instead
ResolveWidth_NoWfCheck(plot_conf, ncols, wf) ==
  IF EqNum(ncols, 1) THEN [ok |-> TRUE, width |-> plot_conf.texcolumnwidth]
  ELSE IF EqNum(ncols, 2)
    THEN [ok |-> FALSE, kind |-> "AttributeError", msg |-> "getinfloat"]
  ELSE IF IsNone(ncols)
    THEN IF ~IsNone(wf)
           THEN [ok |-> TRUE, width |-> Mul(plot_conf.texlinewidth, wf.v)]
           ELSE [ok |-> TRUE, width |-> plot_conf.texlinewidth]
  ELSE [ok |-> FALSE, kind |-> "ValueError", msg |-> "ncols invalid"]

ResolveWidth(plot_conf, ncols, wf) ==
  IF EqNum(ncols, 1) THEN [ok |-> TRUE, width |-> plot_conf.texcolumnwidth]
  ELSE IF EqNum(ncols, 2)
    \* SectionProxy has getfloat, getint and getboolean; no getinfloat
    THEN [ok |-> FALSE, kind |-> "AttributeError", msg |-> "getinfloat"]
  ELSE IF IsNone(ncols)
    THEN IF ~IsNone(wf)
           THEN [ok |-> TRUE, width |-> Mul(plot_conf.texlinewidth, wf.v)]
           ELSE [ok |-> FALSE, kind |-> "ValueError", msg |-> "define width fraction"]
  ELSE [ok |-> FALSE, kind |-> "ValueError", msg |-> "ncols invalid"]

\* lines 107-119: the plot height, or the TypeError of float * str
ResolveHeight_WidthForNone(width, hf, max_height) ==
  IF IsNone(hf) THEN [ok |-> TRUE, height |-> Mul(width, 800)]
  ELSE IF EqStr(hf, "gr") THEN [ok |-> TRUE, height |-> Mul(width, GoldenRatio)]
  ELSE IF hf.t = "str" THEN [ok |-> FALSE]
  ELSE [ok |-> TRUE, height |-> Mul(width, hf.v)]

ResolveHeight(width, hf, max_height) ==
  IF IsNone(hf) THEN [ok |-> TRUE, height |-> Mul(max_height, 800)]
  ELSE IF EqStr(hf, "gr") THEN [ok |-> TRUE, height |-> Mul(width, GoldenRatio)]
  ELSE IF hf.t = "str" THEN [ok |-> FALSE]
  ELSE [ok |-> TRUE, height |-> Mul(width, hf.v)]

\* line 121: the page-height test
HeightExceeds_Off(height, max_height) == FALSE

HeightExceeds(height, max_height) == height > max_height

\* lines 138-154: the plot border settings
MarginBlock_KeepsTop(ncols) ==
  ("figure.subplot.bottom" :> 200) @@
  ("figure.subplot.left" :> 160) @@ ("figure.subplot.right" :> 840)

MarginBlock(ncols) ==
  ("figure.subplot.top" :> 950) @@
  (IF EqNum(ncols, 1)
     THEN ("figure.subplot.bottom" :> 200) @@
          ("figure.subplot.left" :> 160) @@ ("figure.subplot.right" :> 840)
   ELSE IF EqNum(ncols, 2)
     THEN ("figure.subplot.bottom" :> 100) @@
          ("figure.subplot.left" :> 80) @@ ("figure.subplot.right" :> 920)
   ELSE ("figure.subplot.bottom" :> 200) @@
        ("figure.subplot.left" :> 160) @@ ("figure.subplot.right" :> 840))

\* lines 158-161: width and height in inches
FigSize(width, height) ==
  "figure.figsize" :> << (width * 1000) \div InchesToPoints,
                         (height * 1000) \div InchesToPoints >>

\* lines 164-206: text, line, tick, legend and colour settings
StyleBlock ==
  ("font.size" :> font_size) @@ ("axes.labelsize" :> font_size) @@
  ("axes.titlesize" :> font_size) @@
  ("xtick.major.width" :> linewidth - 100) @@
  ("xtick.minor.width" :> linewidth - 100) @@
  ("ytick.major.width" :> linewidth - 100) @@
  ("ytick.minor.width" :> linewidth - 100) @@
  ("lines.linewidth" :> linewidth) @@ ("grid.linewidth" :> linewidth) @@
  ("xtick.minor.visible" :> TRUE) @@ ("ytick.minor.visible" :> TRUE) @@
  ("xtick.bottom" :> TRUE) @@ ("xtick.top" :> TRUE) @@
  ("ytick.left" :> TRUE) @@ ("ytick.right" :> TRUE) @@
  ("xtick.direction" :> "in") @@ ("ytick.direction" :> "in") @@
  ("errorbar.capsize" :> 4) @@
  ("legend.fontsize" :> font_size) @@ ("legend.framealpha" :> 0) @@
  ("legend.edgecolor" :> "w") @@
  ("xtick.labelsize" :> font_size - 1) @@ ("ytick.labelsize" :> font_size - 1) @@
  ("font.family" :> "sans-serif") @@ ("text.usetex" :> TRUE) @@
  ("text.latex.preamble" :> "\\usepackage{underscore}") @@
  ("contour.negative_linestyle" :> "solid") @@
  ("axes.prop_cycle" :> "brckmgy")

\* The whole constructor, from the registry rc it finds: the exception (or
\* none), the lines printed, the registry it leaves and the object it built.
qualfig_init(rc, ncols, hf, wf, key, verbose) ==
  IF ~IsNone(key) /\ key.v \notin SeqRange(permitted_keys)
    THEN Raise(rc, "KeyError", "not yet implemented", 0, <<>>)
  ELSE IF IsNone(key)
    \* plot_conf was never bound: line 83 reads an unbound local
    THEN Raise(rc, "UnboundLocalError", "plot_conf", 0,
               IF verbose THEN <<"Using the DEFAULT configuration...">> ELSE <<>>)
  ELSE
    LET plot_conf   == config[Upper(key.v)]
        save_suffix == plot_conf.savesuf \o <<".", "p", "d", "f">>
        w           == ResolveWidth(plot_conf, ncols, wf)
    IN
    IF ~w.ok THEN Raise(rc, w.kind, w.msg, 0, <<>>)
    ELSE
      LET max_height == plot_conf.texheight
          h          == ResolveHeight(w.width, hf, max_height)
      IN
      IF ~h.ok THEN Raise(rc, "TypeError", "float * str", 0, <<>>)
      ELSE IF HeightExceeds(h.height, max_height)
        THEN Raise(rc, "ValueError", "height exceeds page height",
                   Quot3(max_height, w.width), <<>>)
      ELSE
        [err |-> NoError,
         out |-> (IF verbose THEN <<"Figure size in inches">> ELSE <<>>) \o
                 (IF EqNum(ncols, 1) \/ EqNum(ncols, 2) THEN <<>>
                  ELSE <<"Using a fractional plot width">>),
         rc  |-> Write(rc, MarginBlock(ncols) @@ FigSize(w.width, h.height)
                           @@ StyleBlock),
         obj |-> [cls |-> "qualfig", save_suffix |-> save_suffix,
                  width |-> w.width, height |-> h.height,
                  inches_to_points |-> InchesToPoints, dpi |-> DefaultDpi]]

-----------------------------------------------------------------------------
(* qualfig.set_label_spaces *)

set_label_spaces_LeftWins(rc, side, bottom, top, left, right) ==
  LET side_is_not_None  == ~IsNone(side)
      left_is_not_None  == ~IsNone(left)
      right_is_not_None == ~IsNone(right)
      warn == IF side_is_not_None /\ (left_is_not_None \/ right_is_not_None)
                THEN <<"WARNING: Defaulting to the setting for --side--">>
                ELSE <<>>
      rc1 == IF side_is_not_None /\ ~left_is_not_None /\ ~right_is_not_None
               THEN Write(rc, ("figure.subplot.left" :> side.v) @@
                              ("figure.subplot.right" :> 1000 - side.v))
               ELSE
                 LET rcl == IF left_is_not_None
                              THEN Write(rc, "figure.subplot.left" :> left.v)
                              ELSE rc
                 IN IF right_is_not_None
                      THEN Write(rcl, "figure.subplot.right" :> 1000 - right.v)
                      ELSE rcl
      rc2 == IF ~IsNone(bottom)
               THEN Write(rc1, "figure.subplot.bottom" :> bottom.v) ELSE rc1
      rc3 == IF ~IsNone(top)
               THEN Write(rc2, "figure.subplot.top" :> 1000 - top.v) ELSE rc2
  IN [rc |-> rc3, out |-> warn]

set_label_spaces_ResetsTop(rc, side, bottom, top, left, right) ==
  LET side_is_not_None  == ~IsNone(side)
      left_is_not_None  == ~IsNone(left)
      right_is_not_None == ~IsNone(right)
      warn == IF side_is_not_None /\ (left_is_not_None \/ right_is_not_None)
                THEN <<"WARNING: Defaulting to the setting for --side--">>
                ELSE <<>>
      rc1 == IF side_is_not_None
               THEN Write(rc, ("figure.subplot.left" :> side.v) @@
                              ("figure.subplot.right" :> 1000 - side.v))
               ELSE
                 LET rcl == IF left_is_not_None
                              THEN Write(rc, "figure.subplot.left" :> left.v)
                              ELSE rc
                 IN IF right_is_not_None
                      THEN Write(rcl, "figure.subplot.right" :> 1000 - right.v)
                      ELSE rcl
      rc2 == IF ~IsNone(bottom)
               THEN Write(rc1, "figure.subplot.bottom" :> bottom.v) ELSE rc1
      rc3 == Write(rc2, "figure.subplot.top" :>
                          (IF ~IsNone(top) THEN 1000 - top.v ELSE 950))
  IN [rc |-> rc3, out |-> warn]

\* lines 226-250: the registry the call leaves and the lines it prints
set_label_spaces(rc, side, bottom, top, left, right) ==
  LET side_is_not_None  == ~IsNone(side)
      left_is_not_None  == ~IsNone(left)
      right_is_not_None == ~IsNone(right)
      warn == IF side_is_not_None /\ (left_is_not_None \/ right_is_not_None)
                THEN <<"WARNING: Defaulting to the setting for --side--">>
                ELSE <<>>
      rc1 == IF side_is_not_None
               THEN Write(rc, ("figure.subplot.left" :> side.v) @@
                              ("figure.subplot.right" :> 1000 - side.v))
               ELSE
                 LET rcl == IF left_is_not_None
                              THEN Write(rc, "figure.subplot.left" :> left.v)
                              ELSE rc
                 IN IF right_is_not_None
                      THEN Write(rcl, "figure.subplot.right" :> 1000 - right.v)
                      ELSE rcl
      rc2 == IF ~IsNone(bottom)
               THEN Write(rc1, "figure.subplot.bottom" :> bottom.v) ELSE rc1
      rc3 == IF ~IsNone(top)
               THEN Write(rc2, "figure.subplot.top" :> 1000 - top.v) ELSE rc2
  IN [rc |-> rc3, out |-> warn]

-----------------------------------------------------------------------------
(* qualfig.save and qualfig._crop_figure.  File names are sequences of      *)
(* characters; the file system is the set of names that exist.  The three  *)
(* external tools and rm are modelled by what they do to that set when     *)
(* they succeed.                                                           *)

DotPdf == <<".", "p", "d", "f">>

DotEps == <<".", "e", "p", "s">>

DumPdf == <<"d", "u", "m">> \o DotPdf

\* Python's s[-4:] and s[:-4]
Last4(s) == IF Len(s) <= 4 THEN s ELSE SubSeq(s, Len(s) - 3, Len(s))

DropLast4(s) == IF Len(s) <= 4 THEN <<>> ELSE SubSeq(s, 1, Len(s) - 4)

\* lines 273-278: the name the figure is saved under
SaveName(fname, save_suffix) ==
  (IF Last4(fname) = DotPdf THEN DropLast4(fname) ELSE fname) \o save_suffix

\* pdftops -eps file.pdf writes file.eps
EpsName(pdfname) ==
  IF Last4(pdfname) = DotPdf THEN DropLast4(pdfname) \o DotEps
  ELSE pdfname \o DotEps

\* one external command: the tool, the file it reads, the file it writes and
\* its remaining argument (the dpi of savefig, the --bbox of pdfcrop)
Cmd(tool, in, out, arg) == [tool |-> tool, in |-> in, out |-> out, arg |-> arg]

\* the file system after one command
Exec(fs, c) ==
  CASE c.tool = "savefig" -> fs \cup {c.out}
    [] c.tool = "gs"      -> fs
    [] c.tool = "pdfcrop" -> IF c.in \in fs THEN fs \cup {c.out} ELSE fs
    [] c.tool = "pdftops" -> IF c.in \in fs THEN fs \cup {c.out} ELSE fs
    [] c.tool = "rm"      -> fs \ {c.in}

RECURSIVE ExecAll(_, _)
ExecAll(fs, cs) ==
  IF cs = <<>> THEN fs ELSE ExecAll(Exec(fs, Head(cs)), Tail(cs))

\* lines 258-266: the commands of _crop_figure, in order; bbox is what gs
\* printed last (four numbers)
CropCommands(obj, fname, dpi, bbox) ==
  << Cmd("savefig", <<>>, DumPdf, <<dpi>>),
     Cmd("gs", DumPdf, <<>>, <<>>),
     Cmd("pdfcrop", DumPdf, fname, <<0, bbox[2], obj.width, bbox[4]>>),
     Cmd("rm", DumPdf, <<>>, <<>>) >>

\* lines 283-288: the conversion to eps
ConvertCommands_KeepsPdf(savename, extension) ==
  IF extension = "eps"
    THEN << Cmd("pdftops", savename, EpsName(savename), <<>>) >>
    ELSE <<>>

ConvertCommands(savename, extension) ==
  IF extension = "eps"
    THEN << Cmd("pdftops", savename, EpsName(savename), <<>>),
            Cmd("rm", savename, <<>>, <<>>) >>
    ELSE <<>>

\* lines 268-288: everything save runs, for the object obj
SaveCommands(obj, fname, extension, dpi, bbox) ==
  LET dpi1     == IF IsNone(dpi) THEN obj.dpi ELSE dpi.v
      savename == SaveName(fname, obj.save_suffix)
  IN CropCommands(obj, savename, dpi1, bbox) \o ConvertCommands(savename, extension)

-----------------------------------------------------------------------------
(* Inputs *)

KeyInputs == {None, Str("MNRAS")} \cup {Str(k) : k \in SeqRange(permitted_keys)}

NcolsInputs == {Num(1), Num(2), None, Num(3)}

HfInputs == {None, Str("gr"), Num(1000), Num(5000)}

WfInputs == {None, Num(3000)}

SideInputs == {None, Num(200)}

BottomInputs == {None, Num(150)}

TopInputs == {None, Num(80)}

LeftInputs == {None, Num(100)}

RightInputs == {None, Num(120)}

FnameInputs ==
  { <<"f">>, <<"f">> \o DotPdf, <<"x", "p", "d", "f">> }

ExtensionInputs == {"pdf", "eps", "png"}

DpiInputs == {None, Num(300)}

\* what gs reports: llx, lly, urx, ury of the rendered content
BboxInputs == { <<10, 12, 230, 140>>, <<0, 0, 240, 148>> }

\* saving is not offered once this many files exist
MaxFiles == 2

-----------------------------------------------------------------------------
(* State and actions *)

Init ==
  /\ rcParams = rcDefault
  /\ self = NoObject
  /\ files = {}
  /\ last = [op |-> "import", args |-> <<>>, err |-> NoError, out |-> <<>>,
             cmds |-> <<>>, pre |-> rcDefault]

\* f = qualfig(ncols, hf, wf, key, verbose); when the constructor raises, the
\* caller keeps whatever object it had
Construct(ncols, hf, wf, key, verbose) ==
  LET r == qualfig_init(rcParams, ncols, hf, wf, key, verbose)
  IN /\ rcParams' = r.rc
     /\ self' = IF r.err.kind = "none" THEN r.obj ELSE self
     /\ last' = [op |-> "init",
                 args |-> [ncols |-> ncols, hf |-> hf, wf |-> wf, key |-> key],
                 err |-> r.err, out |-> r.out, cmds |-> <<>>,
                 pre |-> rcParams]
     /\ UNCHANGED files

SetLabelSpaces(side, bottom, top, left, right) ==
  /\ self.cls = "qualfig"
  /\ LET r == set_label_spaces(rcParams, side, bottom, top, left, right)
     IN /\ rcParams' = r.rc
        /\ last' = [op |-> "set_label_spaces",
                    args |-> [side |-> side, bottom |-> bottom, top |-> top,
                              left |-> left, right |-> right],
                    err |-> NoError, out |-> r.out, cmds |-> <<>>,
                    pre |-> rcParams]
  /\ UNCHANGED <<self, files>>

Save(fname, extension, dpi, bbox) ==
  /\ self.cls = "qualfig"
  /\ Cardinality(files) < MaxFiles
  /\ LET cmds == SaveCommands(self, fname, extension, dpi, bbox)
     IN /\ files' = ExecAll(files, cmds)
        /\ last' = [op |-> "save",
                    args |-> [fname |-> fname, extension |-> extension, dpi |-> dpi],
                    err |-> NoError, out |-> <<bbox>>, cmds |-> cmds,
                    pre |-> rcParams]
  /\ UNCHANGED <<rcParams, self>>

ConstructAny ==
  \E ncols \in NcolsInputs, hf \in HfInputs, wf \in WfInputs, key \in KeyInputs :
       Construct(ncols, hf, wf, key, FALSE)

\* the defaults of the signature (one column, golden ratio), for any key
ConstructDefault ==
  \E key \in KeyInputs, verbose \in BOOLEAN :
       Construct(Num(1), Str("gr"), None, key, verbose)

SetLabelSpacesAny ==
  \E side \in SideInputs, bottom \in BottomInputs, top \in TopInputs,
     left \in LeftInputs, right \in RightInputs :
       SetLabelSpaces(side, bottom, top, left, right)

\* the calls that name the side and top borders only
SetLabelSpacesSideTop ==
  \E side \in SideInputs, top \in TopInputs :
       SetLabelSpaces(side, None, top, None, None)

SaveAny ==
  \E fname \in FnameInputs, extension \in ExtensionInputs,
     dpi \in DpiInputs, bbox \in BboxInputs :
       Save(fname, extension, dpi, bbox)

\* Three views of the one program.  save reads the object and writes files
\* only, set_label_spaces writes margins only, so each view keeps the full
\* input range of the operation it is about and a narrower one of the others.

\* every constructor call, between border adjustments
Next == ConstructAny \/ SetLabelSpacesSideTop

Spec == Init /\ [][Next]_vars

\* every set_label_spaces call, on figures built with the default arguments
NextMargins == ConstructDefault \/ SetLabelSpacesAny

MarginSpec == Init /\ [][NextMargins]_vars

\* every save call, on figures built with the default arguments
NextSave == ConstructDefault \/ SaveAny

SaveSpec == Init /\ [][NextSave]_vars

-----------------------------------------------------------------------------
(* Properties *)

LastIsInit == last.op = "init"

LastKeyValid ==
  last.args.key.t = "str" /\ last.args.key.v \in {"mnras", "apj", "aa", "iau", "lmu"}

\* the preset of the key given to the last constructor call
LastPreset == config[Upper(last.args.key.v)]

Succeeded == last.err.kind = "none"

Warning == "WARNING: Defaulting to the setting for --side--"

\* s ends with t, and stem is what precedes t
EndsWith(s, t) == \E n \in 0..Len(s) : s = SubSeq(s, 1, n) \o t

StemBefore(s, t) ==
  CHOOSE stem \in {SubSeq(s, 1, n) : n \in 0..Len(s)} : s = stem \o t

\* position of the first command of the log cs that runs tool on file f
\* (0 when there is none)
FirstAt(cs, tool, f) ==
  IF \E i \in DOMAIN cs : cs[i].tool = tool /\ (cs[i].in = f \/ cs[i].out = f)
    THEN CHOOSE i \in DOMAIN cs :
           /\ cs[i].tool = tool /\ (cs[i].in = f \/ cs[i].out = f)
           /\ \A j \in 1..(i - 1) : ~(cs[j].tool = tool /\ (cs[j].in = f \/ cs[j].out = f))
    ELSE 0

\* C1: a constructor call that raises leaves the global registry exactly as
\* it found it (every raise comes before the first write).
C1_FailedInitWritesNothing ==
  [][(last'.op = "init" /\ last'.err.kind # "none") => rcParams' = rcParams]_vars

\* a failed call (height above the page) made after set_label_spaces had
\* moved the left border: the moved border is still there
C1_Witness ==
  /\ LastIsInit
  /\ last.err.msg = "height exceeds page height"
  /\ last.pre["figure.subplot.left"] = 200
  /\ rcParams["figure.subplot.left"] = 200

\* C2 (as claimed): with a supported template, ncols = 1 resolves the width
\* to texcolumnwidth and ncols = 2 to texlinewidth, and neither call fails
\* while the width is resolved.
C2_ColumnSpanWidth ==
  (LastIsInit /\ LastKeyValid /\ (EqNum(last.args.ncols, 1) \/ EqNum(last.args.ncols, 2)))
    => /\ last.err.kind \notin {"AttributeError", "KeyError", "UnboundLocalError"}
       /\ last.err.msg \notin {"define width fraction", "ncols invalid"}
       /\ Succeeded =>
            self.width = IF EqNum(last.args.ncols, 1)
                           THEN LastPreset.texcolumnwidth
                           ELSE LastPreset.texlinewidth

\* C3 (as claimed): a key that is None or not a permitted template makes the
\* constructor fail with KeyError, whatever ncols, wf and hf are.
C3_BadKeyIsKeyError ==
  (LastIsInit /\ ~LastKeyValid) => last.err.kind = "KeyError"

\* C4: a constructor call that succeeds has height <= texheight of its
\* preset; and a call whose width and key are valid fails with the "height
\* exceeds page height" ValueError exactly when the height its mode gives is
\* above texheight, the message then carrying texheight / width (to the
\* thousandth) for the width resolved in that call.
C4_HeightBound ==
  (LastIsInit /\ LastKeyValid) =>
    /\ Succeeded => self.height <= LastPreset.texheight
    /\ last.err.msg = "height exceeds page height" =>
         LET w == IF EqNum(last.args.ncols, 1)
                    THEN LastPreset.texcolumnwidth
                    ELSE (LastPreset.texlinewidth * last.args.wf.v) \div 1000
             h == IF EqStr(last.args.hf, "gr") THEN (w * 618) \div 1000
                  ELSE (w * last.args.hf.v) \div 1000
         IN /\ last.err.kind = "ValueError"
            /\ h > LastPreset.texheight
            /\ 2 * (last.err.val * w - 1000 * LastPreset.texheight) <= w
            /\ 2 * (1000 * LastPreset.texheight - last.err.val * w) <= w
    /\ (last.err.kind \in {"none", "ValueError"} /\ last.err.msg \notin
          {"define width fraction", "ncols invalid"} /\ ~IsNone(last.args.hf)) =>
         LET w == IF EqNum(last.args.ncols, 1)
                    THEN LastPreset.texcolumnwidth
                    ELSE (LastPreset.texlinewidth * last.args.wf.v) \div 1000
             h == IF EqStr(last.args.hf, "gr") THEN (w * 618) \div 1000
                  ELSE (w * last.args.hf.v) \div 1000
         IN (h > LastPreset.texheight) <=> (last.err.msg = "height exceeds page height")

\* the specification's own example: mnras, one column, hf = 5.0 gives
\* 1200pt > 682pt and the message reports 2.842
C4_Witness ==
  /\ LastIsInit
  /\ EqStr(last.args.key, "mnras") /\ EqNum(last.args.ncols, 1)
  /\ EqNum(last.args.hf, 5000)
  /\ last.err.msg = "height exceeds page height"
  /\ last.err.val = 2842

\* C5: on success, hf None gives 0.80 of texheight (between 80% and 85%,
\* whatever the width), hf "gr" gives width * 0.618 and a numeric hf gives
\* width * hf, the width being the one the same call resolved.
C5_HeightByMode ==
  (LastIsInit /\ Succeeded) =>
    LET hf == last.args.hf
        w  == self.width
        h  == self.height
        H  == LastPreset.texheight
    IN /\ w = IF EqNum(last.args.ncols, 1) THEN LastPreset.texcolumnwidth
              ELSE (LastPreset.texlinewidth * last.args.wf.v) \div 1000
       /\ IsNone(hf) => (100 * h >= 80 * H /\ 100 * h <= 85 * H /\ 1000 * h = 800 * H)
       /\ EqStr(hf, "gr") => (1000 * h <= 618 * w /\ 1000 * h > 618 * w - 1000)
       /\ hf.t = "num" => (1000 * h <= hf.v * w /\ 1000 * h > hf.v * w - 1000)

\* a figure of three page widths with no hf: the height is still 0.80 of
\* the page height
C5_Witness ==
  /\ LastIsInit /\ Succeeded
  /\ IsNone(last.args.hf) /\ IsNone(last.args.ncols)
  /\ self.width > self.height

\* C6: with a supported template, ncols None and a wf gives width =
\* texlinewidth * wf; ncols None without wf raises the "define the width
\* fraction" ValueError; any ncols other than 1, 2, None raises the "ncols
\* invalid" ValueError, whatever wf and hf are.
C6_ColumnSpanValidation ==
  (LastIsInit /\ LastKeyValid) =>
    LET ncols == last.args.ncols
        wf    == last.args.wf
    IN /\ (IsNone(ncols) /\ ~IsNone(wf)) =>
            /\ last.err.msg \notin {"define width fraction", "ncols invalid"}
            /\ last.err.kind \in {"none", "ValueError"}
            /\ Succeeded =>
                 (1000 * self.width <= LastPreset.texlinewidth * wf.v
                  /\ 1000 * self.width > LastPreset.texlinewidth * wf.v - 1000)
       /\ (IsNone(ncols) /\ IsNone(wf)) =>
            (last.err.kind = "ValueError" /\ last.err.msg = "define width fraction")
       /\ (~IsNone(ncols) /\ ~EqNum(ncols, 1) /\ ~EqNum(ncols, 2)) =>
            (last.err.kind = "ValueError" /\ last.err.msg = "ncols invalid")

\* ncols None, no wf, a supported key: the missing-parameter error
C6_Witness ==
  /\ LastIsInit /\ LastKeyValid
  /\ IsNone(last.args.ncols) /\ IsNone(last.args.wf)
  /\ last.err.msg = "define width fraction"

\* C7: set_label_spaces with side = s leaves left = s and right = 1 - s;
\* given together with left and/or right, side wins (the registry is the one
\* the same call without left and right leaves) and the warning is printed.
C7_SideWins ==
  [][(last'.op = "set_label_spaces" /\ ~IsNone(last'.args.side)) =>
       LET a == last'.args
       IN /\ rcParams'["figure.subplot.left"] = a.side.v
          /\ rcParams'["figure.subplot.right"] = 1000 - a.side.v
          /\ rcParams' = set_label_spaces(rcParams, a.side, a.bottom, a.top,
                                          None, None).rc
          /\ (~IsNone(a.left) \/ ~IsNone(a.right)) => last'.out = <<Warning>>
          /\ (IsNone(a.left) /\ IsNone(a.right)) => last'.out = <<>>]_vars

\* side = 0.2 given with left = 0.1 and right = 0.12: 0.2 / 0.8 it is, with
\* the warning
C7_Witness ==
  /\ last.op = "set_label_spaces"
  /\ EqNum(last.args.side, 200) /\ EqNum(last.args.left, 100)
  /\ EqNum(last.args.right, 120)
  /\ rcParams["figure.subplot.left"] = 200
  /\ rcParams["figure.subplot.right"] = 800
  /\ last.out = <<Warning>>

\* C8: set_label_spaces writes the margin of every argument it is given
\* (side standing for left and right) and nothing else: a margin whose
\* argument is omitted, every other key of the registry, the object and the
\* files keep their values; with no argument nothing changes.
C8_MarginFrame ==
  [][last'.op = "set_label_spaces" =>
       LET a == last'.args
           leftGiven  == ~IsNone(a.side) \/ ~IsNone(a.left)
           rightGiven == ~IsNone(a.side) \/ ~IsNone(a.right)
       IN /\ \A k \in (DOMAIN rcParams) \ MarginKeys : rcParams'[k] = rcParams[k]
          /\ DOMAIN rcParams' = DOMAIN rcParams
          /\ IF IsNone(a.top)
               THEN rcParams'["figure.subplot.top"] = rcParams["figure.subplot.top"]
               ELSE rcParams'["figure.subplot.top"] = 1000 - a.top.v
          /\ IF IsNone(a.bottom)
               THEN rcParams'["figure.subplot.bottom"] = rcParams["figure.subplot.bottom"]
               ELSE rcParams'["figure.subplot.bottom"] = a.bottom.v
          /\ IF leftGiven
               THEN rcParams'["figure.subplot.left"] =
                      (IF ~IsNone(a.side) THEN a.side.v ELSE a.left.v)
               ELSE rcParams'["figure.subplot.left"] = rcParams["figure.subplot.left"]
          /\ IF rightGiven
               THEN rcParams'["figure.subplot.right"] =
                      (IF ~IsNone(a.side) THEN 1000 - a.side.v ELSE 1000 - a.right.v)
               ELSE rcParams'["figure.subplot.right"] = rcParams["figure.subplot.right"]
          /\ (IsNone(a.side) /\ IsNone(a.left) /\ IsNone(a.right)
              /\ IsNone(a.top) /\ IsNone(a.bottom)) => rcParams' = rcParams
          /\ self' = self /\ files' = files]_vars

\* only bottom is given, after an earlier call had moved top, left and
\* right: those three are as the earlier call left them
C8_Witness ==
  /\ last.op = "set_label_spaces"
  /\ IsNone(last.args.side) /\ IsNone(last.args.left) /\ IsNone(last.args.right)
  /\ IsNone(last.args.top) /\ EqNum(last.args.bottom, 150)
  /\ last.pre["figure.subplot.bottom"] = 200
  /\ rcParams["figure.subplot.bottom"] = 150
  /\ rcParams["figure.subplot.top"] = 920
  /\ rcParams["figure.subplot.left"] = 100
  /\ rcParams["figure.subplot.right"] = 880

\* C9: save writes under the name <fname without a trailing ".pdf"> followed
\* by the object's save suffix.  The temporary dum.pdf is rendered first,
\* measured, cropped into that name and then removed.  With extension "eps"
\* the cropped pdf is converted and then removed, so the .eps exists and the
\* cropped pdf does not; with extension "pdf" the cropped pdf exists and
\* pdftops is not run.
C9_SaveArtifacts ==
  last.op = "save" =>
    LET fname    == last.args.fname
        stem     == IF EndsWith(fname, DotPdf) THEN StemBefore(fname, DotPdf) ELSE fname
        savename == stem \o self.save_suffix
        epsname  == StemBefore(savename, DotPdf) \o DotEps
        cs       == last.cmds
        render   == FirstAt(cs, "savefig", DumPdf)
        measure  == FirstAt(cs, "gs", DumPdf)
        crop     == FirstAt(cs, "pdfcrop", DumPdf)
        remove   == FirstAt(cs, "rm", DumPdf)
        convert  == FirstAt(cs, "pdftops", savename)
        rmpdf    == FirstAt(cs, "rm", savename)
    IN /\ EndsWith(savename, DotPdf)
       /\ 0 < render /\ render < measure /\ measure < crop /\ crop < remove
       /\ cs[crop].out = savename
       /\ DumPdf \notin files
       /\ \A i \in DOMAIN cs : cs[i].tool = "pdfcrop" => i = crop
       /\ last.args.extension = "eps" =>
            /\ crop < convert /\ convert < rmpdf
            /\ cs[convert].out = epsname
            /\ epsname \in files /\ savename \notin files
       /\ last.args.extension = "pdf" =>
            /\ savename \in files
            /\ \A i \in DOMAIN cs : cs[i].tool # "pdftops"
            /\ rmpdf = 0

\* save("f.pdf", "eps") on an mnras figure: f_mn.eps exists, f_mn.pdf and
\* dum.pdf do not
C9_Witness ==
  /\ last.op = "save"
  /\ last.args.fname = <<"f", ".", "p", "d", "f">>
  /\ last.args.extension = "eps"
  /\ self.save_suffix = <<"_", "m", "n", ".", "p", "d", "f">>
  /\ <<"f", "_", "m", "n", ".", "e", "p", "s">> \in files
  /\ <<"f", "_", "m", "n", ".", "p", "d", "f">> \notin files

\* C10: right after a successful constructor call the four margins, the
\* figure size and the style block are what that call alone determines: the
\* registry equals the one the same call leaves on a fresh registry, the
\* margins and the style block have their fixed values, and the size is the
\* object's width and height in inches.
C10_InitOverwrites ==
  (LastIsInit /\ Succeeded) =>
    LET a == last.args
    IN /\ rcParams = qualfig_init(rcDefault, a.ncols, a.hf, a.wf, a.key, FALSE).rc
       /\ rcParams["figure.subplot.top"] = 950
       /\ rcParams["figure.subplot.bottom"] = 200
       /\ rcParams["figure.subplot.left"] = 160
       /\ rcParams["figure.subplot.right"] = 840
       /\ rcParams["figure.figsize"] =
            << (self.width * 1000) \div 7227, (self.height * 1000) \div 7227 >>
       /\ rcParams["font.size"] = 8 /\ rcParams["axes.labelsize"] = 8
       /\ rcParams["axes.titlesize"] = 8 /\ rcParams["legend.fontsize"] = 8
       /\ rcParams["xtick.labelsize"] = 7 /\ rcParams["ytick.labelsize"] = 7
       /\ rcParams["lines.linewidth"] = 500 /\ rcParams["grid.linewidth"] = 500
       /\ \A k \in {"xtick.major.width", "xtick.minor.width",
                    "ytick.major.width", "ytick.minor.width"} : rcParams[k] = 400
       /\ \A k \in {"xtick.minor.visible", "ytick.minor.visible", "xtick.bottom",
                    "xtick.top", "ytick.left", "ytick.right"} : rcParams[k] = TRUE
       /\ rcParams["xtick.direction"] = "in" /\ rcParams["ytick.direction"] = "in"
       /\ rcParams["errorbar.capsize"] = 4
       /\ rcParams["legend.framealpha"] = 0 /\ rcParams["legend.edgecolor"] = "w"
       /\ rcParams["font.family"] = "sans-serif"
       /\ rcParams["contour.negative_linestyle"] = "solid"
       /\ rcParams["axes.prop_cycle"] = "brckmgy"

\* a successful call made on a registry whose side and top borders
\* set_label_spaces had moved and whose size an earlier figure had set
C10_Witness ==
  /\ LastIsInit /\ Succeeded
  /\ last.pre["figure.subplot.top"] = 920
  /\ last.pre["figure.subplot.left"] = 200
  /\ last.pre["figure.figsize"] # rcParams["figure.figsize"]
  /\ last.pre["font.size"] = 8
  /\ rcParams["figure.subplot.top"] = 950

=============================================================================
